---- MODULE Spec2Model ----
(***************************************************************************)
(* Hand-gesture camera control: HandTracker.jsx (pose predicates, gesture  *)
(* detector, its refs) and ScatterPlot3D.jsx (fullscreen / enable state,   *)
(* the single-slot current gesture, the per-render-tick camera mapper).    *)
(*                                                                         *)
(* Numbers are fixed point, in thousandths: a normalized coordinate 0.3 is *)
(* 300, a strength 0.108 is 108, an orbit distance 12.806 is 12806 and an  *)
(* angle is in milliradians.  The JavaScript code computes in IEEE doubles;*)
(* the model computes the same expressions exactly, on frames for which    *)
(* the square roots and the divisions by 5 are exact (the initial orbit    *)
(* distance, sqrt(164), is rounded down to the thousandth).                *)
(***************************************************************************)
EXTENDS Integers, Sequences, FiniteSets, TLC

VARIABLES
    isFullscreen,        \* ScatterPlot3D state (line 286)
    handTrackingEnabled, \* ScatterPlot3D state (line 287)
    currentGesture,      \* ScatterPlot3D state (line 288): the single slot
    refs,                \* HandTracker refs (lines 30-33) of the mounted tracker
    camera,              \* orbit camera: azimuth and distance
    ticks,               \* number of render ticks taken (bounded by MaxTicks)
    frame,               \* history: the frame last processed by onResults
    prevFrame,           \* history: the frame processed before that one
    pre,                 \* history: refs as they were before the last frame
    emitted,             \* history: what the last frame passed to onGesture
    freshEnable,         \* history: enabled, and no frame processed since
    palmAtDisable,       \* history: lastPositionRef when last disabled
    lastCall,            \* history: how the last onResults call since the
                         \* last change of the enabled flag ended, and the
                         \* gestures it passed to onGesture
    pose,                \* a hand handed to a pose predicate, and the answer
    tracker              \* HandTracker's camera and detector resources and
                         \* the asynchronous steps of its initialization

vars == <<isFullscreen, handTrackingEnabled, currentGesture, refs, camera,
          ticks, frame, prevFrame, pre, emitted, freshEnable, palmAtDisable,
          lastCall, pose, tracker>>

-----------------------------------------------------------------------------
(* Bounds of the model *)

MaxTicks == 2

-----------------------------------------------------------------------------
(* Values *)

\* JavaScript null / an absent optional field
Null == [isNull |-> TRUE]

\* history value: no frame processed yet by the mounted tracker
NoFrame == <<[noFrame |-> TRUE]>>

\* a number held in a ref that may also hold null
Num(n) == [value |-> n]

Point(px, py, pz) == [x |-> px, y |-> py, z |-> pz]

Min(a, b) == IF a < b THEN a ELSE b

Max(a, b) == IF a > b THEN a ELSE b

Abs(a) == IF a < 0 THEN -a ELSE a

RECURSIVE SqrtIter(_, _, _)
SqrtIter(n, lo, hi) ==
    IF lo >= hi THEN lo
    ELSE LET mid == (lo + hi + 1) \div 2
         IN  IF mid * mid <= n THEN SqrtIter(n, mid, hi)
             ELSE SqrtIter(n, lo, mid - 1)

\* Math.sqrt on fixed-point squares (floor; exact on the inputs used)
Sqrt(n) == SqrtIter(n, 0, 20000)

-----------------------------------------------------------------------------
(* Pose classifier *)

PinchThreshold == 100

distance(p1, p2) ==
    Sqrt((p1.x - p2.x) * (p1.x - p2.x) + (p1.y - p2.y) * (p1.y - p2.y))

getPalmCenter(hand) ==
    [x |-> (hand[0].x + hand[5].x + hand[9].x + hand[13].x + hand[17].x) \div 5,
     y |-> (hand[0].y + hand[5].y + hand[9].y + hand[13].y + hand[17].y) \div 5,
     z |-> (hand[0].z + hand[5].z + hand[9].z + hand[13].z + hand[17].z) \div 5]

isHandPinchedInclusive(hand) == distance(hand[4], hand[8]) <= PinchThreshold

isHandPinched(hand) == distance(hand[4], hand[8]) < PinchThreshold

isHandFistAtLevel(hand) ==
    /\ hand[8].y >= hand[5].y
    /\ hand[12].y >= hand[9].y
    /\ hand[16].y >= hand[13].y
    /\ hand[20].y >= hand[17].y

isHandFist(hand) ==
    /\ hand[8].y > hand[5].y
    /\ hand[12].y > hand[9].y
    /\ hand[16].y > hand[13].y
    /\ hand[20].y > hand[17].y

-----------------------------------------------------------------------------
(* Gesture detector.  Each operator returns the gesture and the refs as    *)
(* the function leaves them.                                               *)

DeadZone == 8

StrengthGain == 12

FullStrength == 1000

EmptyRefs ==
    [lastPositionRef |-> Null, lastPinchDistRef |-> Null,
     lastTwoHandsDistRef |-> Null, lastTwoHandsCenterRef |-> Null]

bothPinchedEither(hand1, hand2) == isHandPinched(hand1) \/ isHandPinched(hand2)

bothPinched(hand1, hand2) == isHandPinched(hand1) /\ isHandPinched(hand2)

twoHandBaselineMissing(r) == r.lastTwoHandsDistRef = Null

twoHandZoomGestureInclusive(distDelta) ==
    IF Abs(distDelta) >= DeadZone
    THEN IF distDelta > 0
         THEN [type |-> "twohand-spread",
               strength |-> Min(FullStrength, distDelta * StrengthGain)]
         ELSE [type |-> "twohand-pinch",
               strength |-> Min(FullStrength, Abs(distDelta) * StrengthGain)]
    ELSE Null

twoHandZoomGesture(distDelta) ==
    IF Abs(distDelta) > DeadZone
    THEN IF distDelta > 0
         THEN [type |-> "twohand-spread",
               strength |-> Min(FullStrength, distDelta * StrengthGain)]
         ELSE [type |-> "twohand-pinch",
               strength |-> Min(FullStrength, Abs(distDelta) * StrengthGain)]
    ELSE Null

twoHandBaselineFirstOnly(r, handsDistance) ==
    IF r.lastTwoHandsDistRef = Null
    THEN [r EXCEPT !.lastTwoHandsDistRef = Num(handsDistance)]
    ELSE r

twoHandBaseline(r, handsDistance) ==
    [r EXCEPT !.lastTwoHandsDistRef = Num(handsDistance)]

detectTwoHandGestureLastHand(landmarks, r) ==
    LET hand1 == landmarks[1]
        hand2 == landmarks[Len(landmarks)]
        palm1 == getPalmCenter(hand1)
        palm2 == getPalmCenter(hand2)
        handsDistance == distance(palm1, palm2)
        gesture ==
            IF bothPinched(hand1, hand2) /\ ~twoHandBaselineMissing(r)
            THEN twoHandZoomGesture(handsDistance - r.lastTwoHandsDistRef.value)
            ELSE Null
    IN  [gesture |-> gesture, refs |-> twoHandBaseline(r, handsDistance)]

detectTwoHandGestureBaselineOnEmit(landmarks, r) ==
    LET hand1 == landmarks[1]
        hand2 == landmarks[2]
        palm1 == getPalmCenter(hand1)
        palm2 == getPalmCenter(hand2)
        handsDistance == distance(palm1, palm2)
        gesture ==
            IF bothPinched(hand1, hand2) /\ ~twoHandBaselineMissing(r)
            THEN twoHandZoomGesture(handsDistance - r.lastTwoHandsDistRef.value)
            ELSE Null
    IN  [gesture |-> gesture,
         refs |-> IF gesture = Null /\ ~twoHandBaselineMissing(r)
                  THEN r
                  ELSE twoHandBaseline(r, handsDistance)]

detectTwoHandGesture(landmarks, r) ==
    LET hand1 == landmarks[1]
        hand2 == landmarks[2]
        palm1 == getPalmCenter(hand1)
        palm2 == getPalmCenter(hand2)
        handsDistance == distance(palm1, palm2)
        gesture ==
            IF bothPinched(hand1, hand2) /\ ~twoHandBaselineMissing(r)
            THEN twoHandZoomGesture(handsDistance - r.lastTwoHandsDistRef.value)
            ELSE Null
    IN  [gesture |-> gesture, refs |-> twoHandBaseline(r, handsDistance)]

fistGestureReversed(palmCenter, lastPosition) ==
    IF lastPosition # Null
    THEN [type |-> "fist", position |-> palmCenter,
          delta |-> [x |-> lastPosition.x - palmCenter.x,
                     y |-> lastPosition.y - palmCenter.y,
                     z |-> lastPosition.z - palmCenter.z]]
    ELSE [type |-> "fist", position |-> palmCenter, delta |-> Null]

fistGesture(palmCenter, lastPosition) ==
    IF lastPosition # Null
    THEN [type |-> "fist", position |-> palmCenter,
          delta |-> [x |-> palmCenter.x - lastPosition.x,
                     y |-> palmCenter.y - lastPosition.y,
                     z |-> palmCenter.z - lastPosition.z]]
    ELSE [type |-> "fist", position |-> palmCenter, delta |-> Null]

openHandRefsKept(r) == r

openHandRefs(r) == [r EXCEPT !.lastPositionRef = Null]

detectSingleHandGesture(hand, r) ==
    LET palmCenter == getPalmCenter(hand)
        fistDetected == isHandFist(hand)
    IN  IF fistDetected
        THEN [gesture |-> fistGesture(palmCenter, r.lastPositionRef),
              refs |-> [r EXCEPT !.lastPositionRef = palmCenter]]
        ELSE [gesture |-> Null, refs |-> openHandRefs(r)]

enterTwoHandModeKept(r) == r

enterTwoHandMode(r) ==
    [r EXCEPT !.lastPositionRef = Null, !.lastPinchDistRef = Null]

enterSingleHandModeKept(r) == r

enterSingleHandMode(r) ==
    [r EXCEPT !.lastTwoHandsDistRef = Null, !.lastTwoHandsCenterRef = Null]

detectGestureMoreThanTwo(landmarks, r) ==
    IF Len(landmarks) = 0 THEN [gesture |-> Null, refs |-> r]
    ELSE IF Len(landmarks) > 2
         THEN detectTwoHandGesture(landmarks, enterTwoHandMode(r))
         ELSE detectSingleHandGesture(landmarks[1], enterSingleHandMode(r))

detectGesture(landmarks, r) ==
    IF Len(landmarks) = 0 THEN [gesture |-> Null, refs |-> r]
    ELSE IF Len(landmarks) >= 2
         THEN detectTwoHandGesture(landmarks, enterTwoHandMode(r))
         ELSE detectSingleHandGesture(landmarks[1], enterSingleHandMode(r))

noHandRefsKept(r) == r

noHandRefs(r) == [r EXCEPT !.lastPositionRef = Null]

\* the body of onResults once the canvas is known to be there
processResults(multiHandLandmarks, r) ==
    IF Len(multiHandLandmarks) > 0
    THEN detectGesture(multiHandLandmarks, r)
    ELSE [gesture |-> Null, refs |-> noHandRefs(r)]

-----------------------------------------------------------------------------
(* Camera mapper (GestureController) *)

rotateSensitivity == 15

minDistance == 3000

maxDistance == 20000

\* Canvas camera prop: position [8, 6, 8] looking at the origin
InitialCamera ==
    [azimuth |-> 785,
     distance |-> Sqrt(8000 * 8000 + 6000 * 6000 + 8000 * 8000),
     updates |-> 0]

clampDistanceBelowOnly(d) == Max(minDistance, d)

clampDistance(d) == Max(minDistance, Min(maxDistance, d))

zoomStepFull(strength) == strength

\* gesture.strength * 0.5
zoomStep(strength) == strength \div 2

\* controlsRef.current.update(): the orbit-damping pass of the controls;
\* camera.updates counts the passes made by one render tick
controlsUpdate(cam) == [cam EXCEPT !.updates = cam.updates + 1]

stopsMovement(enabled, gesture) == ~enabled \/ gesture = Null

applyGestureReversed(gesture, cam) ==
    IF gesture.type = "fist" /\ gesture.delta # Null
    THEN [cam EXCEPT !.azimuth =
                         cam.azimuth + gesture.delta.x * rotateSensitivity]
    ELSE IF gesture.type = "twohand-pinch"
    THEN [cam EXCEPT !.distance =
                         clampDistance(cam.distance + zoomStep(gesture.strength))]
    ELSE IF gesture.type = "twohand-spread"
    THEN [cam EXCEPT !.distance =
                         clampDistance(cam.distance - zoomStep(gesture.strength))]
    ELSE cam

applyGesture(gesture, cam) ==
    IF gesture.type = "fist" /\ gesture.delta # Null
    THEN [cam EXCEPT !.azimuth =
                         cam.azimuth - gesture.delta.x * rotateSensitivity]
    ELSE IF gesture.type = "twohand-pinch"
    THEN [cam EXCEPT !.distance =
                         clampDistance(cam.distance + zoomStep(gesture.strength))]
    ELSE IF gesture.type = "twohand-spread"
    THEN [cam EXCEPT !.distance =
                         clampDistance(cam.distance - zoomStep(gesture.strength))]
    ELSE cam

useFrameStopSkipsUpdate(gesture, enabled, cam) ==
    LET c == [cam EXCEPT !.updates = 0]
    IN  IF stopsMovement(enabled, gesture)
        THEN c
        ELSE controlsUpdate(applyGesture(gesture, c))

useFrame(gesture, enabled, cam) ==
    LET c == [cam EXCEPT !.updates = 0]
    IN  IF stopsMovement(enabled, gesture)
        THEN controlsUpdate(c)
        ELSE controlsUpdate(applyGesture(gesture, c))

-----------------------------------------------------------------------------
(* Inputs: the frames the landmark service delivers.  A hand is described  *)
(* by its palm centre and pose; MakeHand lays out its 21 landmarks.        *)

LandmarkIds == 0..20

FingerDx(i) ==
    IF i \in {5, 8} THEN -20
    ELSE IF i \in {9, 12} THEN -10
    ELSE IF i \in {13, 16} THEN 10
    ELSE 20

MakeHand(d) ==
    LET p == d.palm
        tipY == IF d.fist THEN p.y + 5 ELSE p.y - 70
        indexTip == Point(p.x - 20, tipY, p.z)
    IN  [i \in LandmarkIds |->
            IF i = 0 THEN Point(p.x, p.y + 40, p.z)
            ELSE IF i \in {5, 9, 13, 17} THEN Point(p.x + FingerDx(i), p.y - 10, p.z)
            ELSE IF i \in {8, 12, 16, 20} THEN Point(p.x + FingerDx(i), tipY, p.z)
            ELSE IF i = 4
                 THEN IF d.pinched
                      THEN Point(indexTip.x + 30, indexTip.y + 40, p.z)
                      ELSE Point(indexTip.x + 60, indexTip.y + 80, p.z)
            ELSE p]

\* a hand delivered with its first ShortHandLandmarks landmarks only
ShortHandLandmarks == 10

IsShort(d) == "short" \in DOMAIN d

MakeShortHand(d) == [i \in 0..(ShortHandLandmarks - 1) |-> MakeHand(d)[i]]

Landmarks(f) ==
    [i \in 1..Len(f) |->
        IF IsShort(f[i]) THEN MakeShortHand(f[i]) ELSE MakeHand(f[i])]

HandDesc(p, f, pi) == [palm |-> p, fist |-> f, pinched |-> pi]

SinglePalms == {Point(300, 500, 0), Point(400, 540, -50)}

LeftPalm == Point(200, 500, 0)

\* inter-palm distances from LeftPalm: 300, 308, 309 and 400 (a 3-4-5 triangle)
RightPalms ==
    {Point(500, 500, 0), Point(508, 500, 0), Point(509, 500, 0),
     Point(440, 820, -100)}

OneHandFrames ==
    {<<HandDesc(p, f, FALSE)>> : p \in SinglePalms, f \in BOOLEAN}

BothPinchedFrames ==
    {<<HandDesc(LeftPalm, FALSE, TRUE), HandDesc(q, FALSE, TRUE)>> :
        q \in RightPalms}

NotBothPinchedFrames ==
    {<<HandDesc(LeftPalm, FALSE, TRUE), HandDesc(Point(500, 500, 0), FALSE, FALSE)>>,
     <<HandDesc(LeftPalm, FALSE, FALSE), HandDesc(Point(509, 500, 0), FALSE, TRUE)>>,
     <<HandDesc(LeftPalm, TRUE, FALSE), HandDesc(Point(440, 820, -100), TRUE, FALSE)>>}

ThreeHandFrames ==
    {<<HandDesc(LeftPalm, FALSE, TRUE), HandDesc(Point(509, 500, 0), FALSE, TRUE),
       HandDesc(Point(300, 500, 0), TRUE, FALSE)>>}

Frames ==
    {<<>>} \cup OneHandFrames \cup BothPinchedFrames \cup NotBothPinchedFrames
        \cup ThreeHandFrames

ShortHand(p) == [palm |-> p, fist |-> TRUE, pinched |-> FALSE, short |-> TRUE]

\* frames in which a hand lacks some of its 21 landmarks
MalformedFrames ==
    {<<ShortHand(Point(300, 500, 0))>>,
     <<HandDesc(LeftPalm, FALSE, TRUE), ShortHand(Point(500, 500, 0))>>}

\* the landmark lists of the frames, laid out once
LandmarksOf == [f \in Frames \cup MalformedFrames |-> Landmarks(f)]

-----------------------------------------------------------------------------
(* State machine *)

\* no hand handed to a pose predicate
NoPose == [status |-> "none"]

\* HandTracker before its effect has run: no script, no detector, no video
\* element, no stream, no initialization started, no frame loop
IdleTracker ==
    [scriptLoaded |-> FALSE, handsRef |-> FALSE, video |-> Null,
     cameraRef |-> Null, inits |-> <<>>, streams |-> <<>>, loops |-> 0]

\* no onResults call yet since the enabled flag last changed
NoCall == [status |-> "none", calls |-> <<>>]

Init ==
    /\ isFullscreen = FALSE
    /\ handTrackingEnabled = FALSE
    /\ currentGesture = Null
    /\ refs = EmptyRefs
    /\ camera = InitialCamera
    /\ ticks = 0
    /\ frame = NoFrame
    /\ prevFrame = NoFrame
    /\ pre = EmptyRefs
    /\ emitted = Null
    /\ freshEnable = FALSE
    /\ palmAtDisable = Null
    /\ lastCall = NoCall
    /\ pose = NoPose
    /\ tracker = IdleTracker

\* useEffect "Clear gesture when hand tracking is disabled", run when
\* handTrackingEnabled has changed
clearGestureEffectMissing(enabled, gesture) == gesture

clearGestureEffect(enabled, gesture) == IF ~enabled THEN Null ELSE gesture

\* the refs a HandTracker has after its effect cleanup ran on disable: the
\* cleanup stops the stream and closes the detector, nothing else
refsAfterCleanup(r) == r

\* fullscreenchange event: handleFullscreenChange, then the re-render.  The
enabledAfterFullscreenChangeKept(isFs, enabled) == enabled

\* handleFullscreenChange: if (!isFs) setHandTrackingEnabled(false)
enabledAfterFullscreenChange(isFs, enabled) == IF ~isFs THEN FALSE ELSE enabled

\* HandTracker and the Canvas (keyed by isFullscreen) are mounted anew when
\* isFullscreen changes: fresh refs, camera back at its initial position.
FullscreenChange(isFs) ==
    LET enabled == enabledAfterFullscreenChange(isFs, handTrackingEnabled)
        remount == isFs # isFullscreen
    IN  /\ isFullscreen' = isFs
        /\ handTrackingEnabled' = enabled
        /\ currentGesture' = IF enabled # handTrackingEnabled
                             THEN clearGestureEffect(enabled, currentGesture)
                             ELSE currentGesture
        /\ refs' = IF remount THEN EmptyRefs ELSE refs
        /\ camera' = IF remount THEN InitialCamera ELSE camera
        /\ frame' = IF remount THEN NoFrame ELSE frame
        /\ prevFrame' = IF remount THEN NoFrame ELSE prevFrame
        /\ pre' = IF remount THEN EmptyRefs ELSE pre
        /\ emitted' = IF remount THEN Null ELSE emitted
        /\ freshEnable' = (freshEnable /\ enabled)
        /\ palmAtDisable' = IF remount THEN Null ELSE palmAtDisable
        /\ lastCall' = IF remount \/ enabled # handTrackingEnabled
                       THEN NoCall ELSE lastCall
        /\ UNCHANGED <<ticks, pose, tracker>>

\* click on the hand-tracking button, rendered in fullscreen only: the new
\* flag and what ScatterPlot3D and the mounted tracker's refs make of it
toggleHandTrackingState ==
    /\ isFullscreen
    /\ handTrackingEnabled' = ~handTrackingEnabled
    /\ currentGesture' = clearGestureEffect(~handTrackingEnabled, currentGesture)
    /\ refs' = IF handTrackingEnabled THEN refsAfterCleanup(refs) ELSE refs
    /\ freshEnable' = ~handTrackingEnabled
    /\ palmAtDisable' = IF handTrackingEnabled THEN refs.lastPositionRef
                        ELSE palmAtDisable
    /\ lastCall' = NoCall
    /\ UNCHANGED <<isFullscreen, camera, ticks, frame, prevFrame, pre, emitted>>

\* the click, with the tracker's initialization left out of the picture:
\* frames are then free to arrive whenever the canvas is there
ToggleHandTracking ==
    /\ toggleHandTrackingState
    /\ UNCHANGED <<pose, tracker>>

canvasPresentWhileMounted == isFullscreen

\* canvasRef.current: the canvas is rendered while the tracker is mounted
\* and enabled
canvasPresent == isFullscreen /\ handTrackingEnabled

\* the landmarks the classifier reads of a hand
UsedLandmarks == {0, 4, 5, 8, 9, 12, 13, 16, 17, 20}

\* reading .x of a landmark the hand does not have raises a TypeError
handReadThrows(hand) == ~(UsedLandmarks \subseteq DOMAIN hand)

\* detectGesture raises: the one hand, or one of the first two, is incomplete
detectThrows(landmarks) ==
    /\ Len(landmarks) > 0
    /\ \E i \in 1..Min(2, Len(landmarks)) : handReadThrows(landmarks[i])

\* the refs as detectGesture has left them when a hand read raises
refsAtThrow(landmarks, r) ==
    IF Len(landmarks) >= 2 THEN enterTwoHandMode(r) ELSE enterSingleHandMode(r)

onGestureCallsNonNull(gesture) == IF gesture = Null THEN <<>> ELSE <<gesture>>

\* the onGesture invocations of one onResults call that classified `gesture`
onGestureCalls(gesture) == <<gesture>>

setCurrentGestureKeepHeld(current, gesture) ==
    IF current # Null THEN current ELSE gesture

setCurrentGestureSkipNull(current, gesture) ==
    IF gesture = Null THEN current ELSE gesture

\* handleGesture: setCurrentGesture(gesture) overwrites the slot
setCurrentGesture(current, gesture) == gesture

RECURSIVE slotAfter(_, _)
\* the slot after the onGesture invocations `calls`, in order
slotAfter(current, calls) ==
    IF calls = <<>> THEN current
    ELSE slotAfter(setCurrentGesture(current, Head(calls)), Tail(calls))

\* a vision frame result delivered to onResults
OnResults(f) ==
    IF ~canvasPresent
    THEN /\ lastCall' = [status |-> "dropped", calls |-> <<>>]
         /\ UNCHANGED <<isFullscreen, handTrackingEnabled, currentGesture, refs,
                        camera, ticks, frame, prevFrame, pre, emitted,
                        freshEnable, palmAtDisable, pose, tracker>>
    ELSE IF detectThrows(LandmarksOf[f])
    THEN /\ refs' = refsAtThrow(LandmarksOf[f], refs)
         /\ lastCall' = [status |-> "threw", calls |-> <<>>]
         /\ emitted' = Null
         /\ pre' = refs
         /\ prevFrame' = frame
         /\ frame' = f
         /\ freshEnable' = FALSE
         /\ palmAtDisable' = Null
         /\ UNCHANGED <<isFullscreen, handTrackingEnabled, currentGesture,
                        camera, ticks, pose, tracker>>
    ELSE LET out == processResults(LandmarksOf[f], refs)
             calls == onGestureCalls(out.gesture)
         IN  /\ refs' = out.refs
             /\ currentGesture' = slotAfter(currentGesture, calls)
             /\ lastCall' = [status |-> "done", calls |-> calls]
             /\ emitted' = out.gesture
             /\ pre' = refs
             /\ prevFrame' = frame
             /\ frame' = f
             /\ freshEnable' = FALSE
             /\ palmAtDisable' = Null
             /\ UNCHANGED <<isFullscreen, handTrackingEnabled, camera, ticks,
                            pose, tracker>>

gestureAfterTickConsumed(gesture) == Null

\* useFrame reads the gesture prop and calls no setter: the slot keeps it
gestureAfterTick(gesture) == gesture

\* one render tick of GestureController
RenderTick ==
    /\ ticks < MaxTicks
    /\ ticks' = ticks + 1
    /\ camera' = useFrame(currentGesture, handTrackingEnabled, camera)
    /\ currentGesture' = gestureAfterTick(currentGesture)
    /\ UNCHANGED <<isFullscreen, handTrackingEnabled, refs,
                   frame, prevFrame, pre, emitted, freshEnable, palmAtDisable,
                   lastCall, pose, tracker>>

Next ==
    \/ \E isFs \in BOOLEAN : FullscreenChange(isFs)
    \/ ToggleHandTracking
    \/ \E f \in Frames : OnResults(f)
    \/ RenderTick

Spec == Init /\ [][Next]_vars

\* The tracker fed by a landmark service that may also deliver hands with
\* landmarks missing.
NextFaulty ==
    \/ \E isFs \in BOOLEAN : FullscreenChange(isFs)
    \/ ToggleHandTracking
    \/ \E f \in Frames \cup MalformedFrames : OnResults(f)

SpecFaulty == Init /\ [][NextFaulty]_vars

-----------------------------------------------------------------------------
(* The camera mapper on its own: the slot is written with any gesture the  *)
(* detector's types allow, from any orbit distance the controls allow.     *)

StartDistances == {3200, 12806, 19800}

MapperGestures ==
    {Null}
    \cup {[type |-> "fist", position |-> p, delta |-> Null] : p \in SinglePalms}
    \cup {[type |-> "fist", position |-> p, delta |-> Point(dx, 40, -50)] :
            p \in SinglePalms, dx \in {-100, 100}}
    \cup {[type |-> t, strength |-> st] :
            t \in {"twohand-pinch", "twohand-spread"}, st \in {0, 108, 500, 1000}}

InitMapper ==
    /\ isFullscreen = TRUE
    /\ handTrackingEnabled = TRUE
    /\ currentGesture = Null
    /\ refs = EmptyRefs
    /\ camera \in {[InitialCamera EXCEPT !.distance = d] : d \in StartDistances}
    /\ ticks = 0
    /\ frame = NoFrame
    /\ prevFrame = NoFrame
    /\ pre = EmptyRefs
    /\ emitted = Null
    /\ freshEnable = TRUE
    /\ palmAtDisable = Null
    /\ lastCall = NoCall
    /\ pose = NoPose
    /\ tracker = IdleTracker

\* handleGesture: setCurrentGesture(gesture)
handleGesture(gesture) ==
    /\ handTrackingEnabled
    /\ currentGesture' = setCurrentGesture(currentGesture, gesture)
    /\ freshEnable' = FALSE
    /\ palmAtDisable' = Null
    /\ UNCHANGED <<isFullscreen, handTrackingEnabled, refs, camera, ticks,
                   frame, prevFrame, pre, emitted, lastCall, pose, tracker>>

NextMapper ==
    \/ \E g \in MapperGestures : handleGesture(g)
    \/ RenderTick
    \/ ToggleHandTracking

SpecMapper == InitMapper /\ [][NextMapper]_vars

\* The mapper between two vision frames: the last frame has left a gesture
\* in the slot and no other frame is processed while render ticks go on.
InitHeld ==
    /\ isFullscreen = TRUE
    /\ handTrackingEnabled = TRUE
    /\ currentGesture \in MapperGestures
    /\ refs = EmptyRefs
    /\ camera \in {[InitialCamera EXCEPT !.distance = d] : d \in StartDistances}
    /\ ticks = 0
    /\ frame = NoFrame
    /\ prevFrame = NoFrame
    /\ pre = EmptyRefs
    /\ emitted = Null
    /\ freshEnable = FALSE
    /\ palmAtDisable = Null
    /\ lastCall = NoCall
    /\ pose = NoPose
    /\ tracker = IdleTracker

NextHeld ==
    \/ RenderTick
    \/ ToggleHandTracking

SpecHeld == InitHeld /\ [][NextHeld]_vars

-----------------------------------------------------------------------------
(* The pose predicates on their own, on hands given landmark by landmark.  *)

ThumbTips == {Point(500, 500, 0), Point(500, 300, 0)}

\* index tip relative to the thumb tip; 60-80-100 is a 3-4-5 triangle
IndexOffsets ==
    {Point(dx, dy, dz) :
        dx \in {0, 99, 100}, dy \in {0}, dz \in {0, 500}}
    \cup {Point(60, 80, 0), Point(60, 79, 0), Point(101, 0, -500)}

\* fingertip y minus MCP y of the index, middle, ring and pinky finger
Curls ==
    {<<10, 10, 10, 10>>, <<0, 10, 10, 10>>, <<10, 0, 10, 10>>,
     <<10, 10, 0, 10>>, <<10, 10, 10, 0>>, <<-10, 10, 10, 10>>,
     <<10, 10, 10, -10>>, <<0, 0, 0, 0>>, <<-10, -10, -10, -10>>}

PoseHand(thumbTip, off, curl) ==
    LET indexTip == Point(thumbTip.x + off.x, thumbTip.y + off.y,
                          thumbTip.z + off.z)
    IN  [i \in LandmarkIds |->
            IF i = 4 THEN thumbTip
            ELSE IF i = 8 THEN indexTip
            ELSE IF i = 5 THEN Point(indexTip.x, indexTip.y - curl[1], 0)
            ELSE IF i = 12 THEN Point(450, 520, 0)
            ELSE IF i = 9 THEN Point(450, 520 - curl[2], 0)
            ELSE IF i = 16 THEN Point(430, 520, 0)
            ELSE IF i = 13 THEN Point(430, 520 - curl[3], 0)
            ELSE IF i = 20 THEN Point(410, 520, 0)
            ELSE IF i = 17 THEN Point(410, 520 - curl[4], 0)
            ELSE Point(450, 560, 0)]

PoseHands ==
    {PoseHand(t, off, curl) : t \in ThumbTips, off \in IndexOffsets, curl \in Curls}

InitPose ==
    /\ isFullscreen = FALSE
    /\ handTrackingEnabled = FALSE
    /\ currentGesture = Null
    /\ refs = EmptyRefs
    /\ camera = InitialCamera
    /\ ticks = 0
    /\ frame = NoFrame
    /\ prevFrame = NoFrame
    /\ pre = EmptyRefs
    /\ emitted = Null
    /\ freshEnable = FALSE
    /\ palmAtDisable = Null
    /\ lastCall = NoCall
    /\ pose \in {[status |-> "hand", hand |-> h] : h \in PoseHands}
    /\ tracker = IdleTracker

PoseUnchanged ==
    UNCHANGED <<isFullscreen, handTrackingEnabled, currentGesture, refs, camera,
                ticks, frame, prevFrame, pre, emitted, freshEnable,
                palmAtDisable, lastCall, tracker>>

CallIsHandPinched ==
    /\ pose.status = "hand"
    /\ pose' = [status |-> "isHandPinched", hand |-> pose.hand,
                result |-> isHandPinched(pose.hand)]
    /\ PoseUnchanged

CallIsHandFist ==
    /\ pose.status = "hand"
    /\ pose' = [status |-> "isHandFist", hand |-> pose.hand,
                result |-> isHandFist(pose.hand)]
    /\ PoseUnchanged

NextPose ==
    \/ CallIsHandPinched
    \/ CallIsHandFist

SpecPose == InitPose /\ [][NextPose]_vars

-----------------------------------------------------------------------------
(* The tracker's effect (HandTracker.jsx lines 218-301): the asynchronous   *)
(* initialization started by each enable, the cleanup run by each disable,  *)
(* and the frame loops started by the video element's 'playing' events.     *)
(* tracker.inits[i] is the place initialization i has reached, streams[i]   *)
(* the camera stream it acquired, loops the number of processFrame chains   *)
(* that have a call pending.                                                *)

MaxInits == 2

\* the video element rendered while enabled; videoRef.current
mountVideo(t) ==
    [t EXCEPT !.video = [srcObject |-> Null, onplaying |-> FALSE, playDue |-> FALSE]]

\* lines 233-252: detector created and stored; getUserMedia is requested
\* only if the video element is there
afterLoadMediaPipe(t, i) ==
    [t EXCEPT !.scriptLoaded = TRUE,
              !.handsRef = TRUE,
              !.inits[i] = IF t.video # Null THEN "getUserMedia" ELSE "done"]

\* initializeHandTracking up to its first pending await: loadMediaPipe
\* resolves at once when window.Hands is already there
startInitialization(t) ==
    LET i == Len(t.inits) + 1
        started == [t EXCEPT !.inits = Append(t.inits, "loadMediaPipe"),
                             !.streams = Append(t.streams, "none")]
    IN  IF t.scriptLoaded THEN afterLoadMediaPipe(started, i) ELSE started

\* lines 253-274, run when getUserMedia has resolved with a stream: with the
\* video element gone, videoRef.current.srcObject = stream throws and the
\* catch block (lines 276-286) ends the initialization
afterGetUserMedia(t, i) ==
    LET acquired == [t EXCEPT !.streams[i] = "live"]
    IN  IF t.video = Null
        THEN [acquired EXCEPT !.inits[i] = "failed"]
        ELSE [acquired EXCEPT
                 !.video = [srcObject |-> Num(i), onplaying |-> TRUE,
                            playDue |-> TRUE],
                 !.cameraRef = Num(i),
                 !.inits[i] = "done"]

\* the effect's cleanup (lines 291-300) followed by the disabled branch
\* (lines 219-225), with the video element unmounted by the render
effectCleanup(t) ==
    LET unmounted == [t EXCEPT !.video = Null]
    IN  IF t.cameraRef # Null
        THEN [unmounted EXCEPT !.streams[t.cameraRef.value] = "stopped",
                               !.cameraRef = Null]
        ELSE unmounted

InitLifecycle ==
    /\ isFullscreen = TRUE
    /\ handTrackingEnabled = FALSE
    /\ currentGesture = Null
    /\ refs = EmptyRefs
    /\ camera = InitialCamera
    /\ ticks = 0
    /\ frame = NoFrame
    /\ prevFrame = NoFrame
    /\ pre = EmptyRefs
    /\ emitted = Null
    /\ freshEnable = FALSE
    /\ palmAtDisable = Null
    /\ lastCall = NoCall
    /\ pose = NoPose
    /\ tracker = IdleTracker

EnableTracking ==
    /\ ~handTrackingEnabled
    /\ Len(tracker.inits) < MaxInits
    /\ toggleHandTrackingState
    /\ tracker' = startInitialization(mountVideo(tracker))
    /\ UNCHANGED pose

DisableTracking ==
    /\ handTrackingEnabled
    /\ toggleHandTrackingState
    /\ tracker' = effectCleanup(tracker)
    /\ UNCHANGED pose

LifecycleUnchanged ==
    UNCHANGED <<isFullscreen, handTrackingEnabled, currentGesture, refs, camera,
                ticks, frame, prevFrame, pre, emitted, freshEnable,
                palmAtDisable, lastCall, pose>>

\* the script has loaded: await loadMediaPipe() resumes
LoadMediaPipeResolved(i) ==
    /\ i <= Len(tracker.inits)
    /\ tracker.inits[i] = "loadMediaPipe"
    /\ tracker' = afterLoadMediaPipe(tracker, i)
    /\ LifecycleUnchanged

\* await getUserMedia() resumes with a stream
GetUserMediaResolved(i) ==
    /\ i <= Len(tracker.inits)
    /\ tracker.inits[i] = "getUserMedia"
    /\ tracker' = afterGetUserMedia(tracker, i)
    /\ LifecycleUnchanged

\* getUserMedia rejects (permission denied, no camera): the catch block
GetUserMediaRejected(i) ==
    /\ i <= Len(tracker.inits)
    /\ tracker.inits[i] = "getUserMedia"
    /\ tracker' = [tracker EXCEPT !.inits[i] = "failed"]
    /\ LifecycleUnchanged

\* the video element starts playing its new stream: onplaying calls
\* processFrame
VideoPlaying ==
    /\ tracker.video # Null
    /\ tracker.video.playDue /\ tracker.video.onplaying
    /\ tracker' = [tracker EXCEPT !.video.playDue = FALSE,
                                  !.loops = tracker.loops + 1]
    /\ LifecycleUnchanged

\* a pending processFrame call reaches "if (cameraRef.current)" with the
\* ref empty and does not reschedule itself (with the ref set it does, and
\* the state is as before)
ProcessFrameStops ==
    /\ tracker.loops > 0
    /\ tracker.cameraRef = Null
    /\ tracker' = [tracker EXCEPT !.loops = tracker.loops - 1]
    /\ LifecycleUnchanged

NextLifecycle ==
    \/ EnableTracking
    \/ DisableTracking
    \/ \E i \in 1..MaxInits : LoadMediaPipeResolved(i)
    \/ \E i \in 1..MaxInits : GetUserMediaResolved(i)
    \/ \E i \in 1..MaxInits : GetUserMediaRejected(i)
    \/ VideoPlaying
    \/ ProcessFrameStops

SpecLifecycle == InitLifecycle /\ [][NextLifecycle]_vars

-----------------------------------------------------------------------------
(* Properties.  The frames are described by what the landmark service saw: *)
(* the number of hands, each hand's palm centre and pose.                  *)

HandCount(f) == IF f = NoFrame THEN -1 ELSE Len(f)

OneHandFist(f) == HandCount(f) = 1 /\ f[1].fist

OneHandOpen(f) == HandCount(f) = 1 /\ ~f[1].fist

TwoHands(f) == HandCount(f) >= 2

BothPinched(f) == TwoHands(f) /\ f[1].pinched /\ f[2].pinched

\* inter-palm distance of a two-hand frame, from the palms it was built with
PalmDistance(f) == distance(f[1].palm, f[2].palm)

FistNoDelta(p) == [type |-> "fist", position |-> p, delta |-> Null]

FistWithDelta(p, q) ==
    [type |-> "fist", position |-> p,
     delta |-> Point(p.x - q.x, p.y - q.y, p.z - q.z)]

IsZoom(g) == g # Null /\ g.type \in {"twohand-pinch", "twohand-spread"}

HasDelta(g) == g # Null /\ g.type = "fist" /\ g.delta # Null

\* C1 (continuity): a one-hand fist frame processed with lastPositionRef
\* unset emits Fist with its palm centre as position and no delta; a
\* one-hand fist frame that directly follows a one-hand fist frame emits Fist
\* whose delta is, per coordinate, its palm centre minus the previous one.
C1_Continuity ==
    /\ (OneHandFist(frame) /\ pre.lastPositionRef = Null)
           => emitted = FistNoDelta(frame[1].palm)
    /\ (OneHandFist(frame) /\ OneHandFist(prevFrame))
           => emitted = FistWithDelta(frame[1].palm, prevFrame[1].palm)

C1_Witness ==
    /\ OneHandFist(frame) /\ OneHandFist(prevFrame)
    /\ HasDelta(emitted) /\ emitted.delta = Point(100, 40, -50)
    /\ pre.lastPositionRef = Point(300, 500, 0)

\* C2 (release resets): a one-hand frame with an open hand emits None and
\* leaves lastPositionRef unset; the fist frame that follows an open-hand
\* frame carries no delta, wherever the palm is.
C2_ReleaseResets ==
    /\ OneHandOpen(frame) => (emitted = Null /\ refs.lastPositionRef = Null)
    /\ (OneHandFist(frame) /\ OneHandOpen(prevFrame))
           => emitted = FistNoDelta(frame[1].palm)

C2_Witness ==
    /\ OneHandFist(frame) /\ OneHandOpen(prevFrame)
    /\ frame[1].palm # prevFrame[1].palm
    /\ emitted = FistNoDelta(frame[1].palm)

\* C3 (dead zone and strength): on a two-hand frame with both hands pinched
\* and a baseline set, with delta = distance - baseline: |delta| <= 0.008
\* emits None, delta > 0.008 emits TwoHandSpread of strength
\* min(1, delta*12), delta < -0.008 emits TwoHandPinch of strength
\* min(1, |delta|*12); a decrease of 0.008 gives None and one of 0.009 gives
\* TwoHandPinch of strength 0.108.
C3_DeadZone ==
    (BothPinched(frame) /\ pre.lastTwoHandsDistRef # Null) =>
        LET delta == PalmDistance(frame) - pre.lastTwoHandsDistRef.value
        IN  /\ (delta >= -8 /\ delta <= 8) => emitted = Null
            /\ delta > 8 =>
                   emitted = [type |-> "twohand-spread",
                              strength |-> Min(1000, delta * 12)]
            /\ delta < -8 =>
                   emitted = [type |-> "twohand-pinch",
                              strength |-> Min(1000, (-delta) * 12)]
            /\ delta = -9 =>
                   emitted = [type |-> "twohand-pinch", strength |-> 108]

C3_Witness ==
    /\ BothPinched(frame) /\ pre.lastTwoHandsDistRef # Null
    /\ PalmDistance(frame) - pre.lastTwoHandsDistRef.value = -8
    /\ emitted = Null

\* C4 (pinch gating): a two-hand frame in which one of the first two hands
\* is not pinched emits None whatever the change of distance, and leaves
\* lastTwoHandsDistRef at the frame's inter-palm distance.
C4_PinchGating ==
    (TwoHands(frame) /\ ~BothPinched(frame)) =>
        /\ emitted = Null
        /\ refs.lastTwoHandsDistRef = Num(PalmDistance(frame))

C4_Witness ==
    /\ TwoHands(frame) /\ frame[1].pinched /\ ~frame[2].pinched
    /\ pre.lastTwoHandsDistRef # Null
    /\ PalmDistance(frame) - pre.lastTwoHandsDistRef.value < -8
    /\ emitted = Null
    /\ refs.lastTwoHandsDistRef = Num(PalmDistance(frame))

\* the step is onResults processing the first frame since the last enable
FirstFrameSinceEnable == freshEnable /\ ~freshEnable' /\ handTrackingEnabled'

\* C5 (disable clears state): when the feature was disabled with
\* lastPositionRef set and enabled again, tracker still mounted, the first
\* frame processed after that, if a one-hand fist, is emitted with no delta.
C5_NoResidualDelta ==
    [][(FirstFrameSinceEnable /\ palmAtDisable # Null /\ OneHandFist(frame'))
          => emitted' = FistNoDelta(frame'[1].palm)]_vars

\* C6 (clamp invariant): whatever gestures the render ticks apply, the orbit
\* distance stays within [3, 20].
C6_ClampInvariant == camera.distance >= 3000 /\ camera.distance <= 20000

C6_Witness ==
    /\ ticks > 0
    /\ camera.distance = 20000
    /\ IsZoom(currentGesture) /\ currentGesture.type = "twohand-pinch"

\* C7 (mode-switch isolation): the one-hand fist frame that follows a
\* two-hand frame has no delta; the two-hand frame that follows a one-hand
\* frame emits None; a delta is only ever computed against a one-hand fist
\* frame, and a zoom gesture never against a one-hand frame.
C7_ModeSwitchIsolation ==
    /\ (OneHandFist(frame) /\ TwoHands(prevFrame))
           => emitted = FistNoDelta(frame[1].palm)
    /\ (TwoHands(frame) /\ HandCount(prevFrame) = 1) => emitted = Null
    /\ HasDelta(emitted) => OneHandFist(prevFrame)
    /\ IsZoom(emitted) => (TwoHands(frame) /\ HandCount(prevFrame) # 1)

C7_Witness ==
    /\ BothPinched(frame) /\ OneHandFist(prevFrame)
    /\ pre.lastPositionRef # Null
    /\ emitted = Null
    /\ refs.lastPositionRef = Null

\* C8 (TemporalState invariant): lastPositionRef is never set together with
\* lastTwoHandsDistRef or lastTwoHandsCenterRef.
C8_OneModeLive ==
    ~(/\ refs.lastPositionRef # Null
      /\ (refs.lastTwoHandsDistRef # Null \/ refs.lastTwoHandsCenterRef # Null))

C8_Witness ==
    /\ OneHandFist(frame) /\ TwoHands(prevFrame)
    /\ pre.lastTwoHandsDistRef # Null
    /\ refs.lastPositionRef # Null
    /\ refs.lastTwoHandsDistRef = Null

\* C9 (disabling clears the TemporalState): while the feature is disabled,
\* and after re-enabling until a frame is processed, all refs are unset.
C9_DisabledRefsEmpty ==
    (~handTrackingEnabled \/ freshEnable) =>
        /\ refs.lastPositionRef = Null
        /\ refs.lastTwoHandsDistRef = Null
        /\ refs.lastTwoHandsCenterRef = Null

\* C10 (disabling forces the gesture to None): while the feature is
\* disabled, and after re-enabling until a frame is processed, the current
\* gesture is None, and a render tick taken then changes neither azimuth nor
\* distance.
C10_DisabledGestureNone ==
    /\ []((~handTrackingEnabled \/ freshEnable) => currentGesture = Null)
    /\ [][(ticks' # ticks /\ (~handTrackingEnabled \/ freshEnable))
             => (/\ camera'.azimuth = camera.azimuth
                 /\ camera'.distance = camera.distance)]_vars

C10_Witness ==
    /\ isFullscreen /\ ~handTrackingEnabled
    /\ emitted # Null
    /\ currentGesture = Null
    /\ camera.updates = 1

\* what one render tick makes of gesture g, written out from the contract
ExpectedAzimuth(g, cam) ==
    IF HasDelta(g) THEN cam.azimuth - g.delta.x * 15 ELSE cam.azimuth

ExpectedDistance(g, cam) ==
    IF g # Null /\ g.type = "twohand-pinch"
    THEN Max(3000, Min(20000, cam.distance + g.strength \div 2))
    ELSE IF g # Null /\ g.type = "twohand-spread"
    THEN Max(3000, Min(20000, cam.distance - g.strength \div 2))
    ELSE cam.distance

CameraStays == camera'.azimuth = camera.azimuth /\ camera'.distance = camera.distance

TickStep == ticks' # ticks

\* C11 (disabling stops vision processing): while the feature is disabled, a
\* vision-frame result handed to onResults is dropped: no onGesture
\* invocation, and refs, frame history and current gesture stay as they are.
C11_DisabledNoProcessing ==
    /\ [](~handTrackingEnabled =>
            (lastCall.status \in {"none", "dropped"} /\ lastCall.calls = <<>>))
    /\ [][(~handTrackingEnabled /\ ~handTrackingEnabled'
              /\ isFullscreen' = isFullscreen)
             => (/\ refs' = refs
                 /\ currentGesture' = currentGesture
                 /\ frame' = frame
                 /\ emitted' = emitted)]_vars

C11_Witness ==
    /\ isFullscreen /\ ~handTrackingEnabled
    /\ lastCall.status = "dropped"
    /\ OneHandFist(frame)
    /\ refs.lastPositionRef = frame[1].palm

\* C12 (latest value wins): while enabled and a frame has been processed
\* since enabling, the current gesture is the one of the frame processed
\* last, and a render tick applies that gesture and no earlier one.
C12_LatestValueWins ==
    /\ []((handTrackingEnabled /\ lastCall.status = "done")
             => currentGesture = emitted)
    /\ [][(TickStep /\ handTrackingEnabled /\ lastCall.status = "done")
             => (/\ camera'.azimuth = ExpectedAzimuth(emitted, camera)
                 /\ camera'.distance = ExpectedDistance(emitted, camera))]_vars

C12_Witness ==
    /\ ticks = 1
    /\ handTrackingEnabled /\ lastCall.status = "done"
    /\ OneHandFist(frame) /\ OneHandFist(prevFrame)
    /\ HasDelta(emitted) /\ emitted.delta.x = -100
    /\ camera.azimuth = 785 + 1500

\* C13 (None is a stop signal): once a processed frame has delivered None,
\* the current gesture is None and render ticks change neither azimuth nor
\* distance, until a later frame delivers a gesture.
C13_NoneStops ==
    /\ []((frame # NoFrame /\ emitted = Null) => currentGesture = Null)
    /\ [][(TickStep /\ frame # NoFrame /\ emitted = Null) => CameraStays]_vars

C13_Witness ==
    /\ handTrackingEnabled /\ lastCall.status = "done"
    /\ frame = <<>> /\ OneHandFist(prevFrame)
    /\ pre.lastPositionRef # Null
    /\ emitted = Null
    /\ ticks > 0 /\ camera.updates = 1

\* C14 (one callback per frame): while enabled, an onResults call invokes
\* onGesture exactly once, with the gesture classified for its frame, None
\* included.
C14_OneCallbackPerFrame ==
    (handTrackingEnabled /\ lastCall.status # "none") =>
        /\ lastCall.status = "done"
        /\ lastCall.calls = <<emitted>>
        /\ (HandCount(frame) = 0 \/ OneHandOpen(frame)) => lastCall.calls = <<Null>>

C14_Witness ==
    /\ handTrackingEnabled
    /\ TwoHands(frame) /\ ~BothPinched(frame)
    /\ lastCall = [status |-> "done", calls |-> <<Null>>]

\* C15 (malformed data degrades to None): a frame with no hands, or with a
\* hand that lacks landmarks, ends with onGesture(None) and no error raised.
C15_MalformedYieldsNone ==
    (/\ handTrackingEnabled
     /\ lastCall.status # "none"
     /\ frame \in MalformedFrames \cup {<<>>})
        => lastCall = [status |-> "done", calls |-> <<Null>>]

\* C16 (fist mapping): a render tick with the feature enabled and a Fist
\* carrying a delta sets azimuth to azimuth - delta.x * 15 and keeps the
\* distance; any other render tick leaves the azimuth as it is.
C16_FistMapping ==
    [][TickStep =>
          IF handTrackingEnabled /\ HasDelta(currentGesture)
          THEN /\ camera'.azimuth = camera.azimuth - currentGesture.delta.x * 15
               /\ camera'.distance = camera.distance
          ELSE camera'.azimuth = camera.azimuth]_vars

C16_Witness ==
    /\ ticks = 1 /\ handTrackingEnabled
    /\ HasDelta(currentGesture) /\ currentGesture.delta.x = 100
    /\ camera.azimuth = 785 - 1500

C18_DampingOncePerTick == ticks > 0 => camera.updates = 1

C18_Witness ==
    /\ ticks > 0
    /\ ~handTrackingEnabled
    /\ camera.updates = 1

\* C19 (zero hands): a frame with no hands emits None and leaves
\* lastPositionRef unset; the fist frame that follows it has no delta.
C19_ZeroHands ==
    /\ HandCount(frame) = 0 => (emitted = Null /\ refs.lastPositionRef = Null)
    /\ (OneHandFist(frame) /\ HandCount(prevFrame) = 0)
           => emitted = FistNoDelta(frame[1].palm)

C19_Witness ==
    /\ OneHandFist(frame) /\ HandCount(prevFrame) = 0
    /\ emitted = FistNoDelta(frame[1].palm)
    /\ refs.lastPositionRef = frame[1].palm

\* C20 (fresh two-hand baseline): a TwoHandPinch or TwoHandSpread is measured
\* against the distance of the frame processed just before, a two-hand
\* frame; a both-pinched frame right after a zero-hand frame emits None.
C20_FreshBaseline ==
    /\ IsZoom(emitted) =>
           (/\ TwoHands(prevFrame)
            /\ pre.lastTwoHandsDistRef = Num(PalmDistance(prevFrame)))
    /\ (BothPinched(frame) /\ HandCount(prevFrame) = 0) => emitted = Null

\* C21 (first two-hand frame): a two-hand frame processed with
\* lastTwoHandsDistRef unset emits None, both hands pinched or not, and every
\* two-hand frame ends with lastTwoHandsDistRef equal to its own inter-palm
\* distance.
C21_FirstTwoHandFrame ==
    /\ (TwoHands(frame) /\ pre.lastTwoHandsDistRef = Null) => emitted = Null
    /\ TwoHands(frame) => refs.lastTwoHandsDistRef = Num(PalmDistance(frame))

C21_Witness ==
    /\ BothPinched(frame) /\ HandCount(prevFrame) = 1
    /\ pre.lastTwoHandsDistRef = Null
    /\ emitted = Null
    /\ refs.lastTwoHandsDistRef = Num(PalmDistance(frame))

\* C22 (more than two hands): a frame of three or more hands emits the
\* gesture, and leaves the refs, that the frame of its first two hands would.
C22_ExtraHandsIgnored ==
    HandCount(frame) >= 3 =>
        LET firstTwo == processResults(LandmarksOf[SubSeq(frame, 1, 2)], pre)
        IN  /\ emitted = firstTwo.gesture
            /\ refs = firstTwo.refs

C22_Witness ==
    /\ HandCount(frame) = 3 /\ BothPinched(prevFrame)
    /\ PalmDistance(prevFrame) = 300
    /\ emitted = [type |-> "twohand-spread", strength |-> 108]

\* C26 (gesture type follows hand count): a frame of two or more hands never
\* emits Fist, closed fists included, and a frame of one hand never emits
\* TwoHandPinch or TwoHandSpread.
C26_TypeFollowsHandCount ==
    /\ TwoHands(frame) => (emitted = Null \/ IsZoom(emitted))
    /\ HandCount(frame) = 1 => (emitted = Null \/ emitted.type = "fist")

C26_Witness ==
    /\ HandCount(frame) = 2 /\ frame[1].fist /\ frame[2].fist
    /\ lastCall = [status |-> "done", calls |-> <<Null>>]
    /\ emitted = Null

\* C29 (no zoom from slow movement): a both-pinched two-hand frame whose
\* inter-palm distance is within 0.008 of that of the two-hand frame
\* processed just before emits None, whatever the distance of earlier
\* frames, and render ticks then leave the camera distance as it is.
SlowStep ==
    /\ BothPinched(frame) /\ TwoHands(prevFrame)
    /\ Abs(PalmDistance(frame) - PalmDistance(prevFrame)) <= 8

C29_NoZoomFromSlowMovement ==
    /\ [](SlowStep => (emitted = Null /\ currentGesture = Null))
    /\ [][(TickStep /\ SlowStep) => camera'.distance = camera.distance]_vars

C29_Witness ==
    /\ BothPinched(frame) /\ BothPinched(prevFrame)
    /\ PalmDistance(prevFrame) = 308 /\ PalmDistance(frame) = 309
    /\ pre.lastTwoHandsDistRef = Num(308)
    /\ emitted = Null
    /\ ticks > 0 /\ camera.distance = 12806

\* C30 (enabled only in fullscreen): handTrackingEnabled implies
\* isFullscreen, and a step that leaves fullscreen ends with
\* handTrackingEnabled false.
C30_EnabledOnlyInFullscreen ==
    /\ [](handTrackingEnabled => isFullscreen)
    /\ [][(isFullscreen /\ ~isFullscreen') => ~handTrackingEnabled']_vars

C30_Witness ==
    /\ isFullscreen /\ handTrackingEnabled
    /\ lastCall.status = "done" /\ IsZoom(currentGesture)

\* C23 (held gesture re-applied): while enabled with no new vision frame,
\* render ticks keep the gesture in the slot and each applies it again:
\* after k ticks a Fist with delta has moved the azimuth by k * (-delta.x * 15)
\* and a TwoHandPinch / TwoHandSpread has moved the distance by k steps of
\* strength * 0.5, clamped to [3, 20].
C23_HeldReapplied ==
    /\ []((handTrackingEnabled /\ currentGesture # Null) =>
            LET g == currentGesture
            IN  /\ HasDelta(g) =>
                       /\ camera.azimuth = 785 - ticks * (g.delta.x * 15)
                       /\ camera.distance \in StartDistances
                /\ (g.type = "fist" /\ g.delta = Null) =>
                       /\ camera.azimuth = 785
                       /\ camera.distance \in StartDistances
                /\ g.type = "twohand-pinch" =>
                       /\ camera.azimuth = 785
                       /\ \E d0 \in StartDistances :
                              camera.distance =
                                  Min(20000, d0 + ticks * (g.strength \div 2))
                /\ g.type = "twohand-spread" =>
                       /\ camera.azimuth = 785
                       /\ \E d0 \in StartDistances :
                              camera.distance =
                                  Max(3000, d0 - ticks * (g.strength \div 2)))
    /\ [][TickStep => currentGesture' = currentGesture]_vars

C23_Witness ==
    /\ ticks = 2 /\ handTrackingEnabled
    /\ currentGesture = [type |-> "twohand-pinch", strength |-> 500]
    /\ camera.distance = 12806 + 2 * 250

\* squared planar and squared spatial distance of two landmarks
PlanarSq(p, q) == (p.x - q.x) * (p.x - q.x) + (p.y - q.y) * (p.y - q.y)

SpatialSq(p, q) == PlanarSq(p, q) + (p.z - q.z) * (p.z - q.z)

\* C24 (isPinched): isHandPinched(hand) is true iff the distance between
\* landmarks 4 and 8, taken in three dimensions (x, y, z), is strictly less
\* than 0.1.
C24_PinchedIffSpatialDistance ==
    pose.status = "isHandPinched" =>
        (pose.result <=> SpatialSq(pose.hand[4], pose.hand[8]) < 100 * 100)

\* C24 as amended: isHandPinched(hand) is true iff the distance between
\* landmarks 4 and 8 in the image plane (x and y; z is not used) is strictly
\* less than 0.1; a distance of exactly 0.1 is not pinched.
C24_PinchedIffPlanarDistance ==
    pose.status = "isHandPinched" =>
        (pose.result <=> PlanarSq(pose.hand[4], pose.hand[8]) < 100 * 100)

C24_Witness ==
    /\ pose.status = "isHandPinched"
    /\ pose.result
    /\ PlanarSq(pose.hand[4], pose.hand[8]) = 99 * 99
    /\ pose.hand[8].z - pose.hand[4].z = 500

C27_AtMostOneLoop == tracker.loops <= 1

InitPending(i) == tracker.inits[i] \in {"loadMediaPipe", "getUserMedia"}

\* C28 (camera release on disable): once the feature is disabled and no
\* initialization step is pending, every stream an initialization acquired
\* has been stopped and no frame loop can go on.
C28_CameraReleased ==
    (/\ ~handTrackingEnabled
     /\ \A i \in 1..Len(tracker.inits) : ~InitPending(i))
        => /\ \A i \in 1..Len(tracker.streams) : tracker.streams[i] # "live"
           /\ tracker.cameraRef = Null

====
